---- MODULE Spec2Model ----
(***************************************************************************)
(* A model of refc.h, a reference counting allocator with an optional      *)
(* (REFC_H_DEBUG) graph of parent/child links used to detect reference     *)
(* cycles.                                                                 *)
(*                                                                         *)
(* Spec       : one caller, every library call is one step.                *)
(* SpecGraph  : one caller, refc_link / refc_unlink on blocks that stay    *)
(*              allocated.                                                 *)
(* SpecConc   : several threads sharing one block, every atomic operation  *)
(*              of refc_retain / refc_release is one step.                 *)
(* SpecBuilds : one call sequence run with and without REFC_H_DEBUG.       *)
(* SpecLinks  : threads inside refc_link / refc_unlink, every atomic       *)
(*              operation is one step.                                     *)
(***************************************************************************)
EXTENDS Integers, Sequences, FiniteSets, TLC

\* ------------------------------------------------------------------------
\* Bounds
\* ------------------------------------------------------------------------
MaxBlocks == 2      \* Spec: addresses malloc has for a struct refc_ref
MaxNodes == 2       \* Spec: addresses malloc has for a struct ListNode
MaxRetains == 1     \* Spec: refc_retain calls made on one block
GraphBlocks == 3    \* SpecGraph: blocks allocated before the first link
GraphNodes == 3     \* SpecGraph: addresses malloc has for a struct ListNode
Threads == 3        \* SpecConc: threads sharing the block
MaxAhead == 1       \* SpecBuilds: calls made after the debug build has died
LinkThreads == 2    \* SpecLinks: threads that call refc_link or refc_unlink
LinkBlocks == 3     \* SpecLinks: blocks allocated before the calls
LinkNodes == 3      \* SpecLinks: addresses malloc has for a struct ListNode

NULL == 0
ThreadIds == 1..Threads

VARIABLES
    blocks,       \* address -> struct refc_ref (and whether it is allocated)
    nodes,        \* address -> struct ListNode (and whether it is allocated)
    lastCall,     \* the library call made by the last step and its outcome
    retains,      \* address -> refc_retain calls since its last allocation
    releases,     \* address -> refc_release calls since its last allocation
    pushed,       \* address -> nodes refc_link has pushed on its list since then
    dtor_called,  \* SpecConc: destructor invocations on the shared block
    freed,        \* SpecConc: free(ref) calls on the shared block
    unlinked,     \* TRUE once some refc_unlink call has returned 1
    phase,        \* progress of the call sequence link, unlink, unlink, link
    crashed,      \* the process has died (segmentation fault, stack overflow)
    pc,           \* SpecConc: thread -> position inside its calls
    uaf,          \* SpecConc: a step has accessed the block after free(ref)
    plain,        \* SpecBuilds: address -> struct refc_ref of the other build
    plainCall,    \* SpecBuilds: the last call made in the other build
    ahead,        \* SpecBuilds: calls the other build has made on its own
    local         \* SpecLinks: thread -> the call it is in and its locals

\* The addresses of the heap: those of blocks and those of list nodes.
BlockAddrs == DOMAIN blocks
NodeAddrs == DOMAIN nodes

\* The variables of the build with REFC_H_DEBUG and its caller.
DebugVars == <<blocks, nodes, lastCall, retains, releases, pushed, dtor_called,
               freed, unlinked, phase, crashed, pc, uaf>>

\* The variables of the build without REFC_H_DEBUG.
PlainVars == <<plain, plainCall, ahead>>

vars == <<DebugVars, PlainVars, local>>

\* ------------------------------------------------------------------------
\* The heap
\* ------------------------------------------------------------------------
\* struct refc_ref; live is the allocator's view of the address.
NoBlock == [live |-> FALSE, reference_count |-> 0, destructor |-> FALSE,
            links |-> NULL]

\* struct ListNode; live is the allocator's view of the address.
NoNode == [live |-> FALSE, next |-> NULL, value |-> NULL]

\* A call record: the function, its two arguments, how it ended, and the
\* destructor / free calls it made, in order.
NoCall == [op |-> "none", a |-> NULL, b |-> NULL, res |-> "none", ev |-> <<>>]

Call(op, a, b, res, ev) == [op |-> op, a |-> a, b |-> b, res |-> res, ev |-> ev]

LiveBlocks == {b \in BlockAddrs : blocks[b].live}
FreeBlockAddrs == {b \in BlockAddrs : ~blocks[b].live}
FreeNodeAddrs == {n \in NodeAddrs : ~nodes[n].live}

\* What malloc(sizeof(struct ListNode)) can return: NULL, or a free address.
\* Node addresses are never compared with each other, so the least free one
\* stands for all of them.
MallocNode ==
    {NULL} \cup {n \in FreeNodeAddrs : \A m \in FreeNodeAddrs : n <= m}

\* The nodes of the list that starts at head, in list order (following next).
RECURSIVE ListOf(_, _)
ListOf(nd, head) ==
    IF head = NULL THEN <<>> ELSE <<head>> \o ListOf(nd, nd[head].next)

SeqToSet(s) == {s[i] : i \in 1..Len(s)}

\* ------------------------------------------------------------------------
\* The cycle search
\* ------------------------------------------------------------------------
\* What a read through a null or dangling pointer can do: kill the process,
\* or hand back memory that makes the search below it answer 1 or 0.
UndefinedRead == {"crash", "found", "notfound"}

\* find_in_lists(head, match): the set of ways the call can end.
\*   "found" = return 1, "notfound" = return 0,
\*   "crash" = the process dies on a bad read,
\*   "overflow" = the recursion never returns (a call for a list that is
\*   already being searched further up the stack repeats itself for ever).
\* stack is the set of list heads of the calls in progress.
RECURSIVE find_in_lists(_, _, _, _, _)
find_in_lists(bl, nd, head, match, stack) ==
    IF head = NULL THEN {"notfound"}
    ELSE
      LET value == nd[head].value
          below ==
            IF value = NULL \/ ~bl[value].live THEN UndefinedRead
            ELSE IF bl[value].links # NULL /\ bl[value].links \in stack
                 THEN {"overflow"}
            ELSE find_in_lists(bl, nd, bl[value].links, match,
                               stack \cup {bl[value].links})
      IN IF value = match THEN {"found"}
         ELSE (below \ {"notfound"}) \cup
              (IF "notfound" \in below
               THEN find_in_lists(bl, nd, nd[head].next, match, stack)
               ELSE {})

\* The outcomes of the search refc_link(parent, child) starts with.
LinkSearch(bl, nd, parent, child) ==
    find_in_lists(bl, nd, bl[child].links, parent, {bl[child].links})

\* ------------------------------------------------------------------------
\* The call sequence link(p,c), unlink(p,c), unlink(p,c), link(p,c)
\* ------------------------------------------------------------------------
\* The number of nodes of parent's list whose value is child.
PairCount(bl, nd, parent, child) ==
    LET l == ListOf(nd, bl[parent].links)
    IN Cardinality({i \in 1..Len(l) : nd[l[i]].value = child})

\* phase after the call c was made and left the heap as bl, nd:
\*   1 after an accepted link that leaves exactly one node for its pair,
\*   2 and 3 after the next two calls if they are unlink of that pair,
\*   4 after the next call if it is link of that pair, 0 otherwise.
NextPhase(c, bl, nd) ==
    LET same == lastCall.a = c.a /\ lastCall.b = c.b
    IN IF c.op = "link" /\ phase = 3 /\ same THEN 4
       ELSE IF c.op = "unlink" /\ phase \in {1, 2} /\ same THEN phase + 1
       ELSE IF c.op = "link" /\ c.res = "accepted"
               /\ PairCount(bl, nd, c.a, c.b) = 1 THEN 1
       ELSE 0

\* ------------------------------------------------------------------------
\* Initial state: nothing allocated.
\* ------------------------------------------------------------------------
\* The build without REFC_H_DEBUG is not run.
NoPlainBuild ==
    /\ plain = <<>>
    /\ plainCall = NoCall
    /\ ahead = 0

\* No thread is inside refc_link or refc_unlink.
NoLinkThreads == local = <<>>

Init ==
    /\ blocks = [b \in 1..MaxBlocks |-> NoBlock]
    /\ nodes = [n \in 1..MaxNodes |-> NoNode]
    /\ lastCall = NoCall
    /\ retains = [b \in 1..MaxBlocks |-> 0]
    /\ releases = [b \in 1..MaxBlocks |-> 0]
    /\ pushed = [b \in 1..MaxBlocks |-> 0]
    /\ dtor_called = 0
    /\ freed = 0
    /\ unlinked = FALSE
    /\ phase = 0
    /\ crashed = FALSE
    /\ pc = [t \in ThreadIds |-> "none"]
    /\ uaf = FALSE
    /\ NoPlainBuild
    /\ NoLinkThreads

ConcVars == <<dtor_called, freed, pc, uaf>>

\* ------------------------------------------------------------------------
\* Spec: the library calls, one caller
\* ------------------------------------------------------------------------
\* The destructor argument as a call record keeps it: NULL, or the address
\* of a function.
DtorArg(destructor) == IF destructor THEN NULL + 1 ELSE NULL

\* NewBlock without the stores to reference_count, destructor and links: the
\* block keeps the bytes malloc hands out.
NewBlockUninitialised(old, destructor) == [old EXCEPT !.live = TRUE]

\* The block refc_allocate_dtor returns, at an address whose bytes were old.
NewBlock(old, destructor) ==
    [live |-> TRUE, reference_count |-> 1, destructor |-> destructor,
     links |-> NULL]

\* refc_allocate_dtor(size, destructor) when malloc returns the address ref;
\* refc_allocate(size) is the case destructor = FALSE (NULL).
refc_allocate_dtor(ref, destructor) ==
    LET c == Call("allocate", ref, DtorArg(destructor), "ok", <<>>)
    IN
    /\ ~crashed
    /\ ref \in FreeBlockAddrs
    /\ blocks' = [blocks EXCEPT ![ref] = NewBlock(blocks[ref], destructor)]
    /\ retains' = [retains EXCEPT ![ref] = 0]
    /\ releases' = [releases EXCEPT ![ref] = 0]
    /\ pushed' = [pushed EXCEPT ![ref] = 0]
    /\ lastCall' = c
    /\ phase' = NextPhase(c, blocks', nodes)
    /\ UNCHANGED <<nodes, unlinked, crashed, ConcVars>>

\* refc_allocate_dtor(size, destructor) when malloc returns NULL.
refc_allocate_fail(destructor) ==
    LET c == Call("allocate", NULL, DtorArg(destructor), "fail", <<>>)
    IN
    /\ ~crashed
    /\ lastCall' = c
    /\ phase' = NextPhase(c, blocks, nodes)
    /\ UNCHANGED <<blocks, nodes, retains, releases, pushed, unlinked,
                   crashed, ConcVars>>

\* refc_retain(ref) on a live block.
refc_retain(ref) ==
    LET c == Call("retain", ref, NULL, "ok", <<>>)
    IN
    /\ ~crashed
    /\ ref \in LiveBlocks
    /\ retains[ref] < MaxRetains
    /\ blocks' = [blocks EXCEPT
                    ![ref].reference_count = blocks[ref].reference_count + 1]
    /\ retains' = [retains EXCEPT ![ref] = retains[ref] + 1]
    /\ lastCall' = c
    /\ phase' = NextPhase(c, blocks', nodes)
    /\ UNCHANGED <<nodes, releases, pushed, unlinked, crashed, ConcVars>>

\* OwnedNodes that passes over the nodes refc_unlink has set to NULL.
OwnedNodesLinked(nd, head) ==
    {n \in SeqToSet(ListOf(nd, head)) : nd[n].value # NULL}

\* The nodes the loop of refc_release frees: every node of the list at head.
OwnedNodes(nd, head) == SeqToSet(ListOf(nd, head))

\* StillReferenced with >= for >.
StillReferencedAlways(count) == count >= 0

\* The test of refc_release on the count it loads: the block stays.
StillReferenced(count) == count > 0

\* ReleaseEvents with free(ref) moved in front of the destructor call.
ReleaseEventsFreeFirst(destructor, nd, head) ==
    <<"free">>
    \o (IF destructor THEN <<"dtor">> ELSE <<>>)
    \o [i \in 1..Len(ListOf(nd, head)) |-> "free_node"]

\* What refc_release does, in order, once the count is 0: the destructor if
\* there is one, free(head) for every node of the list, free(ref).
ReleaseEvents(destructor, nd, head) ==
    (IF destructor THEN <<"dtor">> ELSE <<>>)
    \o [i \in 1..Len(ListOf(nd, head)) |-> "free_node"]
    \o <<"free">>

\* refc_release(ref) on a live block. With one caller the count loaded after
\* the decrement is the decremented count. Freed memory keeps its bytes, but
\* the list is gone.
refc_release(ref) ==
    LET count == blocks[ref].reference_count - 1
        owned == OwnedNodes(nodes, blocks[ref].links)
        c == IF StillReferenced(count)
             THEN Call("release", ref, NULL, "kept", <<>>)
             ELSE Call("release", ref, NULL, "destroyed",
                       ReleaseEvents(blocks[ref].destructor, nodes,
                                     blocks[ref].links))
    IN
    /\ ~crashed
    /\ ref \in LiveBlocks
    /\ releases' = [releases EXCEPT ![ref] = releases[ref] + 1]
    /\ IF StillReferenced(count)
       THEN /\ blocks' = [blocks EXCEPT ![ref].reference_count = count]
            /\ UNCHANGED nodes
       ELSE /\ nodes' = [n \in NodeAddrs |->
                           IF n \in owned THEN NoNode ELSE nodes[n]]
            /\ blocks' = [blocks EXCEPT ![ref] =
                            [live |-> FALSE, reference_count |-> count,
                             destructor |-> blocks[ref].destructor,
                             links |-> NULL]]
    /\ lastCall' = c
    /\ phase' = NextPhase(c, blocks', nodes')
    /\ UNCHANGED <<retains, pushed, unlinked, crashed, ConcVars>>

\* PushNode that also takes a reference to child for the parent.
PushNodeRetains(bl, nd, parent, child, new_head) ==
    [blocks |-> [bl EXCEPT ![parent].links = new_head,
                           ![child].reference_count =
                               bl[child].reference_count + 1],
     nodes |-> [nd EXCEPT ![new_head] =
                  [live |-> TRUE, next |-> bl[parent].links, value |-> child]]]

\* PushNode without new_head->next = head: the new node ends the list.
PushNodeAlone(bl, nd, parent, child, new_head) ==
    [blocks |-> [bl EXCEPT ![parent].links = new_head],
     nodes |-> [nd EXCEPT ![new_head] =
                  [live |-> TRUE, next |-> NULL, value |-> child]]]

\* The heap after refc_link has stored child in the node new_head and pushed
\* it on parent's list: with one caller the compare-and-swap of the loop
\* finds the head it has just loaded.
PushNode(bl, nd, parent, child, new_head) ==
    [blocks |-> [bl EXCEPT ![parent].links = new_head],
     nodes |-> [nd EXCEPT ![new_head] =
                  [live |-> TRUE, next |-> bl[parent].links, value |-> child]]]

\* How refc_link ends when its search ends as how and malloc returns new_head.
\* Both "rejected_cycle" and "rejected_nomem" are the return value 0.
LinkResult(how, new_head) ==
    IF how = "found" THEN "rejected_cycle"
    ELSE IF how \in {"crash", "overflow"} THEN how
    ELSE IF new_head = NULL THEN "rejected_nomem"
    ELSE "accepted"

\* NodeRequest with the node allocated before the search is made.
NodeRequestEager(how) == MallocNode

\* What malloc returns to refc_link for the node: the call is reached only
\* when the search has returned 0.
NodeRequest(how) == IF how = "notfound" THEN MallocNode ELSE {NULL}

\* refc_link(parent, child) on live blocks. how is the way the cycle search
\* ends; new_head is the node malloc returns (NULL: none), which is pushed.
refc_link(parent, child) ==
    /\ ~crashed
    /\ parent \in LiveBlocks
    /\ child \in LiveBlocks
    /\ \E how \in LinkSearch(blocks, nodes, parent, child) :
       \E new_head \in NodeRequest(how) :
         LET res == LinkResult(how, new_head)
             heap == IF new_head # NULL
                     THEN PushNode(blocks, nodes, parent, child, new_head)
                     ELSE [blocks |-> blocks, nodes |-> nodes]
             c == Call("link", parent, child, res, <<>>)
         IN /\ blocks' = heap.blocks
            /\ nodes' = heap.nodes
            /\ pushed' = IF new_head # NULL
                         THEN [pushed EXCEPT ![parent] = pushed[parent] + 1]
                         ELSE pushed
            /\ crashed' = (res \in {"crash", "overflow"})
            /\ lastCall' = c
            /\ phase' = NextPhase(c, blocks', nodes')
    /\ UNCHANGED <<retains, releases, unlinked, ConcVars>>

\* FirstMatch that picks the matching node pushed first (the last in list
\* order) instead of the one nearest to the head.
FirstMatchOldest(nd, head, child) ==
    LET l == ListOf(nd, head)
        hits == {i \in 1..Len(l) : nd[l[i]].value = child}
    IN IF hits = {} THEN NULL
       ELSE l[CHOOSE i \in hits : \A j \in hits : j <= i]

\* The first node of the list at head whose value is child, or NULL.
RECURSIVE FirstMatch(_, _, _)
FirstMatch(nd, head, child) ==
    IF head = NULL THEN NULL
    ELSE IF nd[head].value = child THEN head
    ELSE FirstMatch(nd, nd[head].next, child)

\* refc_unlink(parent, child) on live blocks.
refc_unlink(parent, child) ==
    LET hit == FirstMatch(nodes, blocks[parent].links, child)
        c == Call("unlink", parent, child,
                  IF hit = NULL THEN "not_found" ELSE "removed", <<>>)
    IN
    /\ ~crashed
    /\ parent \in LiveBlocks
    /\ child \in LiveBlocks
    /\ nodes' = IF hit = NULL THEN nodes
                ELSE [nodes EXCEPT ![hit].value = NULL]
    /\ unlinked' = (unlinked \/ hit # NULL)
    /\ lastCall' = c
    /\ phase' = NextPhase(c, blocks, nodes')
    /\ UNCHANGED <<blocks, retains, releases, pushed, crashed, ConcVars>>

Next ==
    \/ /\ \E ref \in BlockAddrs, d \in BOOLEAN : refc_allocate_dtor(ref, d)
       /\ UNCHANGED <<PlainVars, local>>
    \/ /\ \E d \in BOOLEAN : refc_allocate_fail(d)
       /\ UNCHANGED <<PlainVars, local>>
    \/ /\ \E ref \in BlockAddrs : refc_retain(ref)
       /\ UNCHANGED <<PlainVars, local>>
    \/ /\ \E ref \in BlockAddrs : refc_release(ref)
       /\ UNCHANGED <<PlainVars, local>>
    \/ /\ \E p \in BlockAddrs, c \in BlockAddrs : refc_link(p, c)
       /\ UNCHANGED <<PlainVars, local>>
    \/ /\ \E p \in BlockAddrs, c \in BlockAddrs : refc_unlink(p, c)
       /\ UNCHANGED <<PlainVars, local>>

Spec == Init /\ [][Next]_vars

\* ------------------------------------------------------------------------
\* SpecGraph: the link graph of GraphBlocks blocks that stay allocated
\* ------------------------------------------------------------------------
\* The state after GraphBlocks calls of refc_allocate have succeeded.
GraphInit ==
    /\ blocks = [b \in 1..GraphBlocks |->
                   [live |-> TRUE, reference_count |-> 1,
                    destructor |-> FALSE, links |-> NULL]]
    /\ nodes = [n \in 1..GraphNodes |-> NoNode]
    /\ lastCall = NoCall
    /\ retains = [b \in 1..GraphBlocks |-> 0]
    /\ releases = [b \in 1..GraphBlocks |-> 0]
    /\ pushed = [b \in 1..GraphBlocks |-> 0]
    /\ dtor_called = 0
    /\ freed = 0
    /\ unlinked = FALSE
    /\ phase = 0
    /\ crashed = FALSE
    /\ pc = [t \in ThreadIds |-> "none"]
    /\ uaf = FALSE
    /\ NoPlainBuild
    /\ NoLinkThreads

GraphNext ==
    \/ /\ \E p \in BlockAddrs, c \in BlockAddrs : refc_link(p, c)
       /\ UNCHANGED <<PlainVars, local>>
    \/ /\ \E p \in BlockAddrs, c \in BlockAddrs : refc_unlink(p, c)
       /\ UNCHANGED <<PlainVars, local>>

SpecGraph == GraphInit /\ [][GraphNext]_vars

\* ------------------------------------------------------------------------
\* SpecConc: threads that retain and release one shared block
\* ------------------------------------------------------------------------
\* The address of the block the threads share.
Shared == NULL + 1

\* Thread 1 has allocated the block, with or without a destructor, and owns
\* the reference refc_allocate_dtor gave it; the others own none yet.
ConcInit ==
    /\ \E d \in BOOLEAN :
         blocks = [b \in {Shared} |->
                     [live |-> TRUE, reference_count |-> 1,
                      destructor |-> d, links |-> NULL]]
    /\ nodes = [n \in {} |-> NoNode]
    /\ lastCall = NoCall
    /\ retains = [b \in {Shared} |-> 0]
    /\ releases = [b \in {Shared} |-> 0]
    /\ pushed = [b \in {Shared} |-> 0]
    /\ dtor_called = 0
    /\ freed = 0
    /\ unlinked = FALSE
    /\ phase = 0
    /\ crashed = FALSE
    /\ pc = [t \in ThreadIds |-> IF t = 1 THEN "own" ELSE "none"]
    /\ uaf = FALSE
    /\ NoPlainBuild
    /\ NoLinkThreads

SeqVars == <<lastCall, pushed, unlinked, phase, crashed, PlainVars, local>>

\* refc_retain by a thread that is handed the block by a thread that owns a
\* reference: atomic_fetch_add(&(ref->reference_count), 1).
t_retain(t) ==
    /\ pc[t] = "none"
    /\ \E u \in ThreadIds : pc[u] = "own"
    /\ blocks' = [blocks EXCEPT ![Shared].reference_count =
                    blocks[Shared].reference_count + 1]
    /\ retains' = [retains EXCEPT ![Shared] = retains[Shared] + 1]
    /\ pc' = [pc EXCEPT ![t] = "own"]
    /\ UNCHANGED <<nodes, releases, dtor_called, freed, uaf, SeqVars>>

\* refc_release, first statement:
\* atomic_fetch_sub(&(ref->reference_count), 1), its result unused.
t_release_sub(t) ==
    /\ pc[t] = "own"
    /\ blocks' = [blocks EXCEPT ![Shared].reference_count =
                    blocks[Shared].reference_count - 1]
    /\ releases' = [releases EXCEPT ![Shared] = releases[Shared] + 1]
    /\ pc' = [pc EXCEPT ![t] = "release_load"]
    /\ UNCHANGED <<nodes, retains, dtor_called, freed, uaf, SeqVars>>

\* refc_release, the test: atomic_load(&(ref->reference_count)) > 0.
\* After free(ref) the load reads freed memory and can see any value.
t_release_load(t) ==
    /\ pc[t] = "release_load"
    /\ \E v \in (IF blocks[Shared].live
                 THEN {blocks[Shared].reference_count} ELSE {0, 1}) :
         pc' = [pc EXCEPT ![t] = IF v > 0 THEN "done" ELSE "release_dtor"]
    /\ uaf' = (uaf \/ ~blocks[Shared].live)
    /\ UNCHANGED <<blocks, nodes, retains, releases, dtor_called, freed,
                   SeqVars>>

\* refc_release: if (ref->destructor != NULL) (ref->destructor)(&ref->block).
\* After free(ref) the pointer read is whatever the freed memory holds.
t_release_dtor(t) ==
    /\ pc[t] = "release_dtor"
    /\ \E d \in (IF blocks[Shared].live
                 THEN {blocks[Shared].destructor} ELSE BOOLEAN) :
         dtor_called' = IF d THEN dtor_called + 1 ELSE dtor_called
    /\ uaf' = (uaf \/ ~blocks[Shared].live)
    /\ pc' = [pc EXCEPT ![t] = "release_links"]
    /\ UNCHANGED <<blocks, nodes, retains, releases, freed, SeqVars>>

\* refc_release: the loop that frees the nodes of ref->links.
t_release_links(t) ==
    LET owned == OwnedNodes(nodes, blocks[Shared].links)
    IN
    /\ pc[t] = "release_links"
    /\ nodes' = [n \in NodeAddrs |-> IF n \in owned THEN NoNode ELSE nodes[n]]
    /\ blocks' = [blocks EXCEPT ![Shared].links = NULL]
    /\ uaf' = (uaf \/ ~blocks[Shared].live)
    /\ pc' = [pc EXCEPT ![t] = "release_free"]
    /\ UNCHANGED <<retains, releases, dtor_called, freed, SeqVars>>

\* refc_release, last statement: free(ref).
t_release_free(t) ==
    /\ pc[t] = "release_free"
    /\ blocks' = [blocks EXCEPT ![Shared].live = FALSE]
    /\ freed' = freed + 1
    /\ pc' = [pc EXCEPT ![t] = "done"]
    /\ UNCHANGED <<nodes, retains, releases, dtor_called, uaf, SeqVars>>

ConcNext ==
    \E t \in ThreadIds :
        \/ t_retain(t)
        \/ t_release_sub(t)
        \/ t_release_load(t)
        \/ t_release_dtor(t)
        \/ t_release_links(t)
        \/ t_release_free(t)

SpecConc == ConcInit /\ [][ConcNext]_vars

\* ------------------------------------------------------------------------
\* SpecBuilds: one call sequence run by the build with REFC_H_DEBUG and by
\* the build without it
\* ------------------------------------------------------------------------
\* struct refc_ref without REFC_H_DEBUG: no links field.
NoPlainBlock == [live |-> FALSE, reference_count |-> 0, destructor |-> FALSE]

\* refc_allocate_dtor when malloc returns ref. The address stands for the
\* handle the caller keeps, the same in both builds.
plain_allocate_dtor(ref, destructor) ==
    /\ ~plain[ref].live
    /\ plain' = [plain EXCEPT ![ref] =
                   [live |-> TRUE, reference_count |-> 1,
                    destructor |-> destructor]]
    /\ plainCall' = Call("allocate", ref, DtorArg(destructor), "ok", <<>>)

\* refc_allocate_dtor when malloc returns NULL.
plain_allocate_fail(destructor) ==
    /\ plainCall' = Call("allocate", NULL, DtorArg(destructor), "fail", <<>>)
    /\ UNCHANGED plain

\* refc_retain(ref).
plain_retain(ref) ==
    /\ plain[ref].live
    /\ plain[ref].reference_count <= MaxRetains
    /\ plain' = [plain EXCEPT
                   ![ref].reference_count = plain[ref].reference_count + 1]
    /\ plainCall' = Call("retain", ref, NULL, "ok", <<>>)

\* refc_release(ref): the decrement, the test, the destructor, free(ref).
plain_release(ref) ==
    LET count == plain[ref].reference_count - 1
    IN
    /\ plain[ref].live
    /\ IF StillReferenced(count)
       THEN /\ plain' = [plain EXCEPT ![ref].reference_count = count]
            /\ plainCall' = Call("release", ref, NULL, "kept", <<>>)
       ELSE /\ plain' = [plain EXCEPT ![ref].reference_count = count,
                                      ![ref].live = FALSE]
            /\ plainCall' =
                 Call("release", ref, NULL, "destroyed",
                      (IF plain[ref].destructor THEN <<"dtor">> ELSE <<>>)
                      \o <<"free">>)

\* refc_link(P, C) is the macro (1).
plain_link(parent, child) ==
    /\ plain[parent].live
    /\ plain[child].live
    /\ plainCall' = Call("link", parent, child, "accepted", <<>>)
    /\ UNCHANGED plain

\* refc_unlink(P, C) is the empty macro.
plain_unlink(parent, child) ==
    /\ plain[parent].live
    /\ plain[child].live
    /\ plainCall' = Call("unlink", parent, child, "none", <<>>)
    /\ UNCHANGED plain

\* Both programs start with nothing allocated.
BuildsInit ==
    /\ blocks = [b \in 1..MaxBlocks |-> NoBlock]
    /\ nodes = [n \in 1..MaxNodes |-> NoNode]
    /\ lastCall = NoCall
    /\ retains = [b \in 1..MaxBlocks |-> 0]
    /\ releases = [b \in 1..MaxBlocks |-> 0]
    /\ pushed = [b \in 1..MaxBlocks |-> 0]
    /\ dtor_called = 0
    /\ freed = 0
    /\ unlinked = FALSE
    /\ phase = 0
    /\ crashed = FALSE
    /\ pc = [t \in ThreadIds |-> "none"]
    /\ uaf = FALSE
    /\ plain = [b \in 1..MaxBlocks |-> NoPlainBlock]
    /\ plainCall = NoCall
    /\ ahead = 0
    /\ NoLinkThreads

\* The next call of the sequence when the debug build has died in refc_link:
\* only the other build makes it.
PlainOnly(call) ==
    /\ crashed
    /\ ahead < MaxAhead
    /\ call
    /\ ahead' = ahead + 1
    /\ UNCHANGED <<DebugVars, local>>

\* Every call of the sequence is made in both builds, with the same results
\* of malloc.
BuildsNext ==
    \/ /\ \E ref \in BlockAddrs, d \in BOOLEAN :
            refc_allocate_dtor(ref, d) /\ plain_allocate_dtor(ref, d)
       /\ UNCHANGED <<ahead, local>>
    \/ /\ \E d \in BOOLEAN : refc_allocate_fail(d) /\ plain_allocate_fail(d)
       /\ UNCHANGED <<ahead, local>>
    \/ /\ \E ref \in BlockAddrs : refc_retain(ref) /\ plain_retain(ref)
       /\ UNCHANGED <<ahead, local>>
    \/ /\ \E ref \in BlockAddrs : refc_release(ref) /\ plain_release(ref)
       /\ UNCHANGED <<ahead, local>>
    \/ /\ \E p \in BlockAddrs, c \in BlockAddrs :
            refc_link(p, c) /\ plain_link(p, c)
       /\ UNCHANGED <<ahead, local>>
    \/ /\ \E p \in BlockAddrs, c \in BlockAddrs :
            refc_unlink(p, c) /\ plain_unlink(p, c)
       /\ UNCHANGED <<ahead, local>>
    \/ PlainOnly(\E ref \in BlockAddrs, d \in BOOLEAN :
                    plain_allocate_dtor(ref, d))
    \/ PlainOnly(\E d \in BOOLEAN : plain_allocate_fail(d))
    \/ PlainOnly(\E ref \in BlockAddrs : plain_retain(ref))
    \/ PlainOnly(\E ref \in BlockAddrs : plain_release(ref))
    \/ PlainOnly(\E p \in BlockAddrs, c \in BlockAddrs : plain_link(p, c))
    \/ PlainOnly(\E p \in BlockAddrs, c \in BlockAddrs : plain_unlink(p, c))

SpecBuilds == BuildsInit /\ [][BuildsNext]_vars

\* ------------------------------------------------------------------------
\* SpecLinks: threads that each make one call of refc_link or refc_unlink;
\* every atomic operation of the call is one step
\* ------------------------------------------------------------------------
LinkThreadIds == 1..LinkThreads

\* The calls of find_in_lists the stack of a thread has room for.
LinkDepth == LinkBlocks

\* The locals of a thread: the call (op, parent, child) and its result, head
\* and new_head of refc_link / refc_unlink, the head of every find_in_lists
\* call in progress (the innermost last) and the value it has loaded, and
\* whether a compare-and-swap of the call has failed.
NoLocal == [op |-> "none", parent |-> NULL, child |-> NULL, res |-> "none",
            head |-> NULL, new_head |-> NULL, stack |-> <<>>, value |-> NULL,
            retried |-> FALSE]

\* The locals of a call that has returned res.
Return(l, res) ==
    [l EXCEPT !.res = res, !.head = NULL, !.stack = <<>>, !.value = NULL]

\* The blocks are allocated; the graph is empty, or holds the edge that one
\* refc_link call on the first two blocks has made.
LinksInit ==
    /\ \E made \in BOOLEAN :
         LET heap == IF made
                     THEN PushNode([b \in 1..LinkBlocks |->
                                      NewBlock(NoBlock, FALSE)],
                                   [n \in 1..LinkNodes |-> NoNode],
                                   NULL + 1, NULL + 2, NULL + 1)
                     ELSE [blocks |-> [b \in 1..LinkBlocks |->
                                         NewBlock(NoBlock, FALSE)],
                           nodes |-> [n \in 1..LinkNodes |-> NoNode]]
         IN /\ blocks = heap.blocks
            /\ nodes = heap.nodes
            /\ pushed = [b \in 1..LinkBlocks |->
                           IF made /\ b = NULL + 1 THEN 1 ELSE 0]
    /\ lastCall = NoCall
    /\ retains = [b \in 1..LinkBlocks |-> 0]
    /\ releases = [b \in 1..LinkBlocks |-> 0]
    /\ dtor_called = 0
    /\ freed = 0
    /\ unlinked = FALSE
    /\ phase = 0
    /\ crashed = FALSE
    /\ pc = [t \in LinkThreadIds |-> "idle"]
    /\ uaf = FALSE
    /\ NoPlainBuild
    /\ local = [t \in LinkThreadIds |-> NoLocal]

\* What the threads of SpecLinks leave alone.
LinkFrame == <<lastCall, retains, releases, dtor_called, freed, unlinked,
               phase, uaf, PlainVars>>

\* refc_link(parent, child) is called:
\* head = atomic_load(&child->links); find_in_lists(head, parent).
t_link_begin(t, parent, child) ==
    /\ ~crashed
    /\ pc[t] = "idle"
    /\ local' = [local EXCEPT ![t] =
                   [NoLocal EXCEPT !.op = "link", !.parent = parent,
                                   !.child = child,
                                   !.stack = <<blocks[child].links>>]]
    /\ pc' = [pc EXCEPT ![t] = "find"]
    /\ UNCHANGED <<blocks, nodes, pushed, crashed, LinkFrame>>

\* The innermost find_in_lists call at the top of its loop. At the end of
\* its list it returns 0, and its caller goes to head->next, or refc_link
\* goes on to malloc. Else it loads head->value and returns 1, through every
\* caller, when that is match.
t_find(t) ==
    LET l == local[t]
        depth == Len(l.stack)
        head == l.stack[depth]
        value == nodes[head].value
        outer == SubSeq(l.stack, 1, depth - 1)
        caller == outer[depth - 1]
    IN
    /\ ~crashed
    /\ pc[t] = "find"
    /\ IF head = NULL /\ depth = 1
       THEN /\ local' = [local EXCEPT ![t].stack = <<>>]
            /\ pc' = [pc EXCEPT ![t] = "link_malloc"]
       ELSE IF head = NULL
       THEN /\ local' = [local EXCEPT ![t].stack =
                           [outer EXCEPT ![depth - 1] = nodes[caller].next]]
            /\ UNCHANGED pc
       ELSE IF value = l.parent
       THEN /\ local' = [local EXCEPT ![t] = Return(l, "rejected_cycle")]
            /\ pc' = [pc EXCEPT ![t] = "done"]
       ELSE /\ local' = [local EXCEPT ![t].value = value]
            /\ pc' = [pc EXCEPT ![t] = "find_links"]
    /\ UNCHANGED <<blocks, nodes, pushed, crashed, LinkFrame>>

\* find_in_lists(value->links, match): the load of value->links and the
\* call. With value = NULL the read is undefined; with no room left on the
\* stack the call kills the process.
t_find_links(t) ==
    LET l == local[t]
        depth == Len(l.stack)
        head == l.stack[depth]
    IN
    /\ ~crashed
    /\ pc[t] = "find_links"
    /\ IF l.value = NULL \/ ~blocks[l.value].live
       THEN \E how \in UndefinedRead :
              /\ crashed' = (how = "crash")
              /\ IF how = "notfound"
                 THEN /\ local' = [local EXCEPT
                                     ![t].stack[depth] = nodes[head].next,
                                     ![t].value = NULL]
                      /\ pc' = [pc EXCEPT ![t] = "find"]
                 ELSE /\ local' = [local EXCEPT ![t] =
                                     Return(l, IF how = "found"
                                               THEN "rejected_cycle"
                                               ELSE "crash")]
                      /\ pc' = [pc EXCEPT ![t] = "done"]
       ELSE IF depth >= LinkDepth
       THEN /\ crashed' = TRUE
            /\ local' = [local EXCEPT ![t] = Return(l, "overflow")]
            /\ pc' = [pc EXCEPT ![t] = "done"]
       ELSE /\ local' = [local EXCEPT
                           ![t].stack = Append(l.stack,
                                               blocks[l.value].links),
                           ![t].value = NULL]
            /\ pc' = [pc EXCEPT ![t] = "find"]
            /\ UNCHANGED crashed
    /\ UNCHANGED <<blocks, nodes, pushed, LinkFrame>>

\* NewNode without atomic_store(&new_head->value, child).
NewNodeNoValue(child) == [live |-> TRUE, next |-> NULL, value |-> NULL]

\* The node refc_link has allocated and stored child in; next is not set.
NewNode(child) == [live |-> TRUE, next |-> NULL, value |-> child]

\* new_head = malloc(sizeof(struct ListNode)); return 0 if it is NULL;
\* atomic_store(&new_head->value, child).
t_link_malloc(t) ==
    /\ ~crashed
    /\ pc[t] = "link_malloc"
    /\ \E new_head \in MallocNode :
         IF new_head = NULL
         THEN /\ local' = [local EXCEPT ![t] =
                             Return(local[t], "rejected_nomem")]
              /\ pc' = [pc EXCEPT ![t] = "done"]
              /\ UNCHANGED nodes
         ELSE /\ nodes' = [nodes EXCEPT ![new_head] =
                             NewNode(local[t].child)]
              /\ local' = [local EXCEPT ![t].new_head = new_head]
              /\ pc' = [pc EXCEPT ![t] = "link_head"]
    /\ UNCHANGED <<blocks, pushed, crashed, LinkFrame>>

\* head = atomic_load(&parent->links); new_head->next = head.
t_link_head(t) ==
    LET head == blocks[local[t].parent].links
    IN
    /\ ~crashed
    /\ pc[t] = "link_head"
    /\ nodes' = [nodes EXCEPT ![local[t].new_head].next = head]
    /\ local' = [local EXCEPT ![t].head = head]
    /\ pc' = [pc EXCEPT ![t] = "link_cas"]
    /\ UNCHANGED <<blocks, pushed, crashed, LinkFrame>>

\* CasOutcomes of a store that does not compare.
CasOutcomesBlind(current, expected) == {TRUE}

\* Whether atomic_compare_exchange_weak can succeed when the object holds
\* current: only if that is the expected value, and even then it may fail.
CasOutcomes(current, expected) ==
    IF current = expected THEN {TRUE, FALSE} ELSE {FALSE}

\* atomic_compare_exchange_weak(&parent->links, &head, new_head): return 1
\* when it succeeds, else go round the loop again.
t_link_cas(t) ==
    LET l == local[t]
    IN
    /\ ~crashed
    /\ pc[t] = "link_cas"
    /\ \E ok \in CasOutcomes(blocks[l.parent].links, l.head) :
         IF ok
         THEN /\ blocks' = [blocks EXCEPT ![l.parent].links = l.new_head]
              /\ pushed' = [pushed EXCEPT ![l.parent] = pushed[l.parent] + 1]
              /\ local' = [local EXCEPT ![t] = Return(l, "accepted")]
              /\ pc' = [pc EXCEPT ![t] = "done"]
         ELSE /\ local' = [local EXCEPT ![t].retried = TRUE]
              /\ pc' = [pc EXCEPT ![t] = "link_head"]
              /\ UNCHANGED <<blocks, pushed>>
    /\ UNCHANGED <<nodes, crashed, LinkFrame>>

\* refc_unlink(parent, child) is called:
\* head = atomic_load(&parent->links).
t_unlink_begin(t, parent, child) ==
    /\ ~crashed
    /\ pc[t] = "idle"
    /\ local' = [local EXCEPT ![t] =
                   [NoLocal EXCEPT !.op = "unlink", !.parent = parent,
                                   !.child = child,
                                   !.head = blocks[parent].links]]
    /\ pc' = [pc EXCEPT ![t] = "unlink_test"]
    /\ UNCHANGED <<blocks, nodes, pushed, crashed, LinkFrame>>

\* while (head != NULL): if (child == atomic_load(&head->value)) go to the
\* store, else head = head->next; after the loop return 0.
t_unlink_test(t) ==
    LET l == local[t]
    IN
    /\ ~crashed
    /\ pc[t] = "unlink_test"
    /\ IF l.head = NULL
       THEN /\ local' = [local EXCEPT ![t] = Return(l, "not_found")]
            /\ pc' = [pc EXCEPT ![t] = "done"]
       ELSE IF nodes[l.head].value = l.child
       THEN /\ pc' = [pc EXCEPT ![t] = "unlink_store"]
            /\ UNCHANGED local
       ELSE /\ local' = [local EXCEPT ![t].head = nodes[l.head].next]
            /\ UNCHANGED pc
    /\ UNCHANGED <<blocks, nodes, pushed, crashed, LinkFrame>>

\* atomic_store(&head->value, NULL); return 1.
t_unlink_store(t) ==
    LET l == local[t]
    IN
    /\ ~crashed
    /\ pc[t] = "unlink_store"
    /\ nodes' = [nodes EXCEPT ![l.head].value = NULL]
    /\ local' = [local EXCEPT ![t] = Return(l, "removed")]
    /\ pc' = [pc EXCEPT ![t] = "done"]
    /\ UNCHANGED <<blocks, pushed, crashed, LinkFrame>>

LinksNext ==
    \E t \in LinkThreadIds :
        \/ \E p \in BlockAddrs, c \in BlockAddrs : t_link_begin(t, p, c)
        \/ t_find(t)
        \/ t_find_links(t)
        \/ t_link_malloc(t)
        \/ t_link_head(t)
        \/ t_link_cas(t)
        \/ \E p \in BlockAddrs, c \in BlockAddrs : t_unlink_begin(t, p, c)
        \/ t_unlink_test(t)
        \/ t_unlink_store(t)

SpecLinks == LinksInit /\ [][LinksNext]_vars

\* ------------------------------------------------------------------------
\* The link graph
\* ------------------------------------------------------------------------
\* The edges parent -> child held by nodes that are not tombstones.
Edges(bl, nd) ==
    {e \in (DOMAIN bl) \X (DOMAIN bl) :
        /\ bl[e[1]].live
        /\ \E n \in SeqToSet(ListOf(nd, bl[e[1]].links)) : nd[n].value = e[2]}

\* The blocks one edge away from a block of the set from.
Successors(bl, nd, from) == {e[2] : e \in {d \in Edges(bl, nd) : d[1] \in from}}

\* The blocks reachable from the set seen by following zero or more edges.
RECURSIVE Closure(_, _, _)
Closure(bl, nd, seen) ==
    LET more == seen \cup Successors(bl, nd, seen)
    IN IF more = seen THEN seen ELSE Closure(bl, nd, more)

\* to is reachable from from by following one or more edges.
Reachable(bl, nd, from, to) == to \in Closure(bl, nd, Successors(bl, nd, {from}))

\* ------------------------------------------------------------------------
\* Claims
\* ------------------------------------------------------------------------
\* The threads of SpecConc have all finished their calls.
AllDone == \A t \in ThreadIds : pc[t] \in {"none", "done"}

\* C1: for a block shared by threads that each own one reference and each
\* call refc_release once, in every interleaving the destructor runs exactly
\* once and free(ref) is called exactly once: never twice, never zero times.
C1_DestroyedExactlyOnce ==
    /\ dtor_called <= 1
    /\ freed <= 1
    /\ AllDone => /\ freed = 1
                  /\ blocks[Shared].destructor => dtor_called = 1

\* C3: after any sequence of refc_link and refc_unlink calls on live blocks
\* no block is reachable from itself through one or more edges that are not
\* tombstones, a single edge from a block to itself included.
C3_Acyclic ==
    \A b \in BlockAddrs : ~Reachable(blocks, nodes, b, b)

\* C7: every refc_link call ends with a result, accepted or rejected: the
\* recursive search always finishes.
C7_LinkTerminates ==
    lastCall.op = "link" =>
        lastCall.res \in {"accepted", "rejected_cycle", "rejected_nomem"}

\* The step is a call of refc_link.
LinkStep == lastCall'.op = "link"

\* refc_link returned: 1 ("accepted") or 0.
Returned(res) == res \in {"accepted", "rejected_cycle", "rejected_nomem"}

\* C4: with node allocation succeeding and no edge unlinked so far,
\* refc_link(parent, child) is rejected if parent is reachable from child by
\* one or more existing edges, and is accepted otherwise.
C4_RejectedIffReachable ==
    [][(LinkStep /\ ~unlinked /\ lastCall'.res # "rejected_nomem") =>
         lastCall'.res =
           IF Reachable(blocks, nodes, lastCall'.b, lastCall'.a)
           THEN "rejected_cycle" ELSE "accepted"]_vars

\* The first thing the search of the list at head for match comes to, when
\* it walks as find_in_lists does: the block match ("found"), a tombstone
\* ("tombstone"), the address of a block that has been freed ("dangling"),
\* a list it is already searching ("again"), or the end of every list
\* ("notfound").
RECURSIVE FirstMet(_, _, _, _, _)
FirstMet(bl, nd, head, match, stack) ==
    IF head = NULL THEN "notfound"
    ELSE
      LET value == nd[head].value
          below == IF ~bl[value].live THEN "dangling"
                   ELSE IF bl[value].links # NULL /\ bl[value].links \in stack
                   THEN "again"
                   ELSE FirstMet(bl, nd, bl[value].links, match,
                                 stack \cup {bl[value].links})
      IN IF value = match THEN "found"
         ELSE IF value = NULL THEN "tombstone"
         ELSE IF below # "notfound" THEN below
         ELSE FirstMet(bl, nd, nd[head].next, match, stack)

\* The search of refc_link(parent, child) reaches a tombstoned node.
ReachesTombstone(parent, child) ==
    FirstMet(blocks, nodes, blocks[child].links, parent,
             {blocks[child].links}) = "tombstone"

\* C5: a refc_link call whose search reaches a tombstoned node skips it and
\* still returns; and after link(parent, child) is accepted and
\* unlink(parent, child) reports removed, link(child, parent) is accepted
\* (unless malloc fails).
C5_SearchSkipsTombstones ==
    [][LinkStep =>
         /\ ReachesTombstone(lastCall'.a, lastCall'.b) =>
                Returned(lastCall'.res)
         /\ (/\ phase = 2
             /\ lastCall.res = "removed"
             /\ lastCall'.a = lastCall.b
             /\ lastCall'.b = lastCall.a
             /\ lastCall'.res # "rejected_nomem") =>
                lastCall'.res = "accepted"]_vars

\* The values of the nodes of parent's list, in list order.
ListValues(parent) ==
    LET l == ListOf(nodes, blocks[parent].links)
    IN [i \in 1..Len(l) |-> nodes[l[i]].value]

\* C6: for an edge parent->child created by exactly one accepted link, the
\* first unlink(parent, child) reports removed, a second one reports
\* not_found, and a link(parent, child) after them is accepted (unless malloc
\* fails) and pushes a fresh node in front of the tombstoned one, which stays.
C6_UnlinkOnceThenRelink ==
    /\ phase = 2 => lastCall.res = "removed"
    /\ phase = 3 => lastCall.res = "not_found"
    /\ (phase = 4 /\ lastCall.res # "rejected_nomem") =>
          /\ lastCall.res = "accepted"
          /\ Len(ListValues(lastCall.a)) >= 2
          /\ ListValues(lastCall.a)[1] = lastCall.b
          /\ ListValues(lastCall.a)[2] = NULL

\* The number of entries of the sequence s that are x.
Count(s, x) == Cardinality({i \in 1..Len(s) : s[i] = x})

\* C2: with one caller, the count of a live block is 1 + retains - releases;
\* a block that has had n-1 retains is not destroyed by fewer than n
\* releases, and its n-th release destroys it, running its destructor.
C2_DestructorAtLastRelease ==
    /\ \A b \in LiveBlocks :
          /\ blocks[b].reference_count = 1 + retains[b] - releases[b]
          /\ releases[b] <= retains[b]
    /\ \A b \in BlockAddrs \ LiveBlocks :
          \/ retains[b] = 0 /\ releases[b] = 0
          \/ releases[b] = retains[b] + 1
    /\ lastCall.op = "release" =>
          IF releases[lastCall.a] = retains[lastCall.a] + 1
          THEN /\ lastCall.res = "destroyed"
               /\ ~blocks[lastCall.a].live
               /\ Count(lastCall.ev, "dtor") =
                     IF blocks[lastCall.a].destructor THEN 1 ELSE 0
          ELSE /\ lastCall.res = "kept"
               /\ blocks[lastCall.a].live
               /\ lastCall.ev = <<>>

\* A block with a destructor destroyed by its last release after the most
\* retains the model makes.
C2_Witness ==
    /\ lastCall.op = "release"
    /\ lastCall.res = "destroyed"
    /\ retains[lastCall.a] = MaxRetains
    /\ releases[lastCall.a] = MaxRetains + 1
    /\ lastCall.ev = <<"dtor", "free">>

\* C8: refc_release of a block that has not been retained since it was
\* allocated calls the destructor exactly once if there is one and never if
\* there is none, calls it before free(ref), and calls free(ref) exactly once.
C8_AllocateThenRelease ==
    (lastCall.op = "release" /\ retains[lastCall.a] = 0) =>
        /\ lastCall.res = "destroyed"
        /\ ~blocks[lastCall.a].live
        /\ Count(lastCall.ev, "free") = 1
        /\ lastCall.ev[Len(lastCall.ev)] = "free"
        /\ Count(lastCall.ev, "dtor") =
              IF blocks[lastCall.a].destructor THEN 1 ELSE 0
        /\ blocks[lastCall.a].destructor => lastCall.ev[1] = "dtor"

\* A block with a destructor released right after its allocation.
C8_Witness ==
    /\ lastCall.op = "release"
    /\ retains[lastCall.a] = 0
    /\ releases[lastCall.a] = 1
    /\ blocks[lastCall.a].destructor
    /\ lastCall.ev = <<"dtor", "free">>

\* C9: a refc_link call that returns 0, for a cycle found or for a failed
\* node allocation, leaves every links list as it was: heads, nodes, values.
C9_RejectedLinkMutatesNothing ==
    [][(LinkStep /\ lastCall'.res \in {"rejected_cycle", "rejected_nomem"}) =>
          /\ nodes' = nodes
          /\ \A b \in BlockAddrs : blocks'[b].links = blocks[b].links]_vars

\* A link rejected for the cycle it would close, with nodes in the lists.
C9_Witness ==
    /\ lastCall.op = "link"
    /\ lastCall.res = "rejected_cycle"
    /\ lastCall.a # lastCall.b
    /\ blocks[lastCall.b].links # NULL
    /\ FreeNodeAddrs # {}

\* C10: refc_link and refc_unlink, however they end, leave every reference
\* count as it was, call no destructor and free nothing.
C10_LinksKeepCounts ==
    [][lastCall'.op \in {"link", "unlink"} =>
          /\ \A b \in BlockAddrs :
                /\ blocks'[b].reference_count = blocks[b].reference_count
                /\ blocks'[b].live = blocks[b].live
          /\ \A n \in NodeAddrs : nodes[n].live => nodes'[n].live
          /\ lastCall'.ev = <<>>]_vars

\* An accepted link to a child whose count is 2.
C10_Witness ==
    /\ lastCall.op = "link"
    /\ lastCall.res = "accepted"
    /\ lastCall.a # lastCall.b
    /\ blocks[lastCall.b].reference_count = 2
    /\ blocks[lastCall.a].reference_count = 1


AllocateStep == lastCall'.op = "allocate"

\* C11: a call of refc_allocate_dtor (or refc_allocate) either fails, returns
\* NULL and creates no block, or creates one block that was not allocated
\* before, with reference count 1, the destructor that was passed (none for
\* refc_allocate) and an empty list of links; no other block and no list node
\* changes.
C11_AllocateFailsOrInitialises ==
    [][AllocateStep =>
         LET ref == lastCall'.a
         IN IF lastCall'.res = "fail"
            THEN /\ ref = NULL
                 /\ blocks' = blocks
                 /\ nodes' = nodes
            ELSE /\ ref \in BlockAddrs
                 /\ ~blocks[ref].live
                 /\ blocks'[ref].live
                 /\ blocks'[ref].reference_count = 1
                 /\ blocks'[ref].destructor = (lastCall'.b # NULL)
                 /\ blocks'[ref].links = NULL
                 /\ \A b \in BlockAddrs \ {ref} : blocks'[b] = blocks[b]
                 /\ nodes' = nodes]_vars

\* An allocation with a destructor has succeeded at an address that was used
\* before, while another block is allocated, retained and has a link.
C11_Witness ==
    /\ lastCall.op = "allocate"
    /\ lastCall.res = "ok"
    /\ lastCall.b # NULL
    /\ \E b \in LiveBlocks \ {lastCall.a} :
         /\ blocks[b].reference_count > 1
         /\ blocks[b].links # NULL
         /\ nodes[blocks[b].links].value = lastCall.a

\* C13: no step of a refc_release call reads or writes the block after
\* free(ref) has returned it to the allocator; in particular the call whose
\* decrement leaves the count above zero does not touch the block again.
C13_NoAccessAfterFree == ~uaf

\* The search of refc_link(parent, child) reaches a node whose value is the
\* address of a freed block, and reads the links field of that block.
ReadsFreedBlock(parent, child) ==
    FirstMet(blocks, nodes, blocks[child].links, parent,
             {blocks[child].links}) = "dangling"

\* C14: called with live blocks by one caller that uses only blocks it holds
\* a reference to, no refc_link call reads the links field of a block that
\* has been destroyed.
C14_SearchReadsLiveBlocks ==
    [][LinkStep => ~ReadsFreedBlock(lastCall'.a, lastCall'.b)]_vars

UnlinkStep == lastCall'.op = "unlink"

\* C16: with one caller, every accepted refc_link(parent, child) adds one
\* node for the pair; refc_unlink(parent, child) returns 1 while such a node
\* is left and then turns exactly one of them into a tombstone, the one
\* nearest to the head (the most recently pushed), and nothing else; it
\* returns 0 and changes nothing when none is left. So after k accepted links
\* the first k unlinks report removed and the next one not_found.
C16_UnlinkTombstonesFirstMatch ==
    [][LET parent == lastCall'.a
           child == lastCall'.b
           l == ListOf(nodes, blocks[parent].links)
           hits == {i \in 1..Len(l) : nodes[l[i]].value = child}
           k == PairCount(blocks, nodes, parent, child)
       IN /\ LinkStep /\ lastCall'.res = "accepted" =>
               PairCount(blocks', nodes', parent, child) = k + 1
          /\ UnlinkStep =>
               /\ blocks' = blocks
               /\ IF k = 0
                  THEN lastCall'.res = "not_found" /\ nodes' = nodes
                  ELSE /\ lastCall'.res = "removed"
                       /\ PairCount(blocks', nodes', parent, child) = k - 1
                       /\ \E i \in hits :
                            /\ \A j \in hits : i <= j
                            /\ nodes' = [nodes EXCEPT ![l[i]].value = NULL]
      ]_vars

\* The first of the unlinks that follow two accepted links of one pair has
\* returned 1: the later node is a tombstone, the earlier one is not.
C16_Witness ==
    /\ lastCall.op = "unlink"
    /\ lastCall.res = "removed"
    /\ ListValues(lastCall.a) = <<NULL, lastCall.b>>

\* The sequence s ends with the sequence t.
IsSuffix(t, s) ==
    /\ Len(t) <= Len(s)
    /\ \A i \in 1..Len(t) : t[i] = s[Len(s) - Len(t) + i]

\* C17: while a block stays allocated its list only grows at the head: the
\* list before a step is a suffix of the list after it and the next field of
\* its nodes does not change; an accepted refc_link puts exactly one new node
\* in front of parent's list and leaves every other list alone; refc_unlink
\* changes no head and no next field, and the value field of at most one
\* node.
C17_ListAppendOnly ==
    [][/\ \A b \in BlockAddrs :
            blocks[b].live /\ blocks'[b].live =>
              LET l == ListOf(nodes, blocks[b].links)
              IN /\ IsSuffix(l, ListOf(nodes', blocks'[b].links))
                 /\ \A i \in 1..Len(l) : nodes'[l[i]].next = nodes[l[i]].next
       /\ LinkStep /\ lastCall'.res = "accepted" =>
            /\ \A b \in BlockAddrs \ {lastCall'.a} :
                 blocks'[b].links = blocks[b].links
            /\ blocks'[lastCall'.a].links \in FreeNodeAddrs
            /\ ListOf(nodes', blocks'[lastCall'.a].links)
                 = <<blocks'[lastCall'.a].links>>
                   \o ListOf(nodes, blocks[lastCall'.a].links)
       /\ UnlinkStep =>
            /\ blocks' = blocks
            /\ \A n \in NodeAddrs : nodes'[n].next = nodes[n].next
            /\ Cardinality({n \in NodeAddrs : nodes'[n] # nodes[n]})
                 = IF lastCall'.res = "removed" THEN 1 ELSE 0
      ]_vars

\* A second node has been pushed on a list, in front of a tombstone, after
\* another block has been destroyed.
C17_Witness ==
    /\ lastCall.op = "link"
    /\ lastCall.res = "accepted"
    /\ Len(ListValues(lastCall.a)) = 2
    /\ ListValues(lastCall.a)[2] = NULL
    /\ releases[lastCall.b] = 0
    /\ \E b \in BlockAddrs : ~blocks[b].live /\ releases[b] > 0

ReleaseStep == lastCall'.op = "release"

\* C18: the refc_release call that brings a block's count to 0 frees every
\* node of the block's list, tombstones included, each once: as many free
\* calls as refc_link calls have pushed nodes on the list, all of them after
\* the destructor call and before free(ref). No other step frees a node.
C18_NodesFreedWithBlock ==
    [][LET died == {n \in NodeAddrs : nodes[n].live /\ ~nodes'[n].live}
       IN IF ReleaseStep /\ lastCall'.res = "destroyed"
          THEN LET ref == lastCall'.a
                   l == ListOf(nodes, blocks[ref].links)
                   ev == lastCall'.ev
                   frees == {i \in 1..Len(ev) : ev[i] = "free_node"}
               IN /\ Len(l) = pushed[ref]
                  /\ died = SeqToSet(l)
                  /\ Cardinality(died) = pushed[ref]
                  /\ Cardinality(frees) = pushed[ref]
                  /\ Count(ev, "free") = 1
                  /\ \A i \in frees, j \in 1..Len(ev) :
                       /\ ev[j] = "dtor" => j < i
                       /\ ev[j] = "free" => i < j
          ELSE died = {}
      ]_vars

\* A block with a destructor and a list of two nodes has been destroyed,
\* after a refc_unlink call has returned 1.
C18_Witness ==
    /\ lastCall.op = "release"
    /\ lastCall.res = "destroyed"
    /\ lastCall.ev = <<"dtor", "free_node", "free_node", "free">>
    /\ pushed[lastCall.a] = 2
    /\ unlinked

\* The destructor and free(ref) calls of a call, without the free(head)
\* calls of the node loop.
LifecycleEvents(ev) == SelectSeq(ev, LAMBDA e : e # "free_node")

\* The two builds have made the same calls, hold the same blocks with the
\* same counts, and the last call made the same destructor and free(ref)
\* calls in both.
BuildsAgree ==
    /\ plainCall.op = lastCall.op
    /\ plainCall.a = lastCall.a
    /\ plainCall.b = lastCall.b
    /\ plainCall.ev = LifecycleEvents(lastCall.ev)
    /\ \A b \in BlockAddrs :
         /\ plain[b].live = blocks[b].live
         /\ plain[b].reference_count = blocks[b].reference_count
         /\ plain[b].destructor = blocks[b].destructor

\* C20: run on one sequence of allocate, retain, release, link and unlink
\* calls by one caller, the build with REFC_H_DEBUG and the build without it
\* have, after every call, the same count for every block, and have made the
\* same destructor calls and the same free(ref) calls in the same order.
C20_BuildsAgreeOnLifecycle == BuildsAgree

\* Every thread of SpecLinks has made its call and the call has returned.
LinksDone == \A t \in LinkThreadIds : pc[t] = "done"

\* The threads whose call was refc_link(parent, child) and returned 1.
Accepted(parent, child) ==
    {t \in LinkThreadIds : /\ local[t].op = "link"
                           /\ local[t].parent = parent
                           /\ local[t].child = child
                           /\ local[t].res = "accepted"}

\* C12: threads that push on the lists at the same time lose no node: in
\* every interleaving of their loads, stores to next and compare-and-swaps,
\* the list of a block holds as many nodes as refc_link calls have pushed on
\* it, and the node of every accepted call is in the list of its parent,
\* once.
C12_ConcurrentPushLosesNoNode ==
    /\ \A p \in BlockAddrs :
         Len(ListOf(nodes, blocks[p].links)) = pushed[p]
    /\ \A t \in LinkThreadIds :
         local[t].res = "accepted" =>
           Count(ListOf(nodes, blocks[local[t].parent].links),
                 local[t].new_head) = 1

\* Two threads have linked two different children without edges to one
\* parent, both calls were accepted, and a compare-and-swap of one of them
\* had failed.
C12_Witness ==
    /\ LinksDone
    /\ \E p \in BlockAddrs, c \in BlockAddrs, d \in BlockAddrs :
         /\ c # d
         /\ Accepted(p, c) # {}
         /\ Accepted(p, d) # {}
         /\ blocks[c].links = NULL
         /\ blocks[d].links = NULL
         /\ pushed[p] = 2
    /\ \E t \in LinkThreadIds : local[t].retried

\* C15: when the edge parent -> child is held by one node that is not a
\* tombstone and two threads call refc_unlink(parent, child) at the same
\* time, one of the calls returns 1 and the other returns 0.
C15_OneConcurrentUnlinkRemoves ==
    (/\ LinksDone
     /\ \A t \in LinkThreadIds : /\ local[t].op = "unlink"
                                  /\ local[t].parent = NULL + 1
                                  /\ local[t].child = NULL + 2
     /\ pushed[NULL + 1] = 1)
    => Cardinality({t \in LinkThreadIds : local[t].res = "removed"}) = 1

\* C19: when refc_link(A, B) and refc_link(B, A) are made at the same time
\* on two blocks without edges and both return 1, the graph holds the cycle
\* A -> B -> A; and there is an interleaving in which both do return 1
\* (C19_Witness).
C19_BothAcceptedMakeCycle ==
    \A a \in BlockAddrs, b \in BlockAddrs :
        (/\ LinksDone
         /\ a # b
         /\ Accepted(a, b) # {}
         /\ Accepted(b, a) # {}
         /\ pushed[a] = 1
         /\ pushed[b] = 1)
        => /\ <<a, b>> \in Edges(blocks, nodes)
           /\ <<b, a>> \in Edges(blocks, nodes)
           /\ Reachable(blocks, nodes, a, a)

\* Both calls have returned 1: each search ended before the other call
\* pushed its node.
C19_Witness ==
    /\ LinksDone
    /\ \E a \in BlockAddrs, b \in BlockAddrs :
         /\ a # b
         /\ Accepted(a, b) # {}
         /\ Accepted(b, a) # {}
         /\ pushed[a] = 1
         /\ pushed[b] = 1
         /\ Reachable(blocks, nodes, a, a)
====
